---- MODULE Spec2Model ----
(***************************************************************************)
(* Model of youtube_mp3.py: the single-item pipeline download_audio, the   *)
(* playlist orchestrator download_playlist, the cli entry point and the    *)
(* pure helpers sanitize_filename and process_metadata.                    *)
(*                                                                         *)
(* Strings are sequences of one-character strings; a multi-character       *)
(* element ("youtube_video_", "Unknown Artist") stands for that literal.   *)
(* Every external collaborator (yt-dlp, Groq, eyed3, rsync, Telegram, the  *)
(* filesystem) is an environment whose outcome is chosen with \E.          *)
(***************************************************************************)
EXTENDS Integers, Sequences, FiniteSets, TLC

VARIABLES
    \* ---- process environment and filesystem
    pc,          \* position of the single thread of control
    isPlaylist,  \* cli: "playlist" in url or "list=" in url
    delay,       \* cli --delay option
    apiKey,      \* GROQ_API_KEY is set
    token,       \* ZENHA_TELEGRAM_TOKEN is set
    dirExists,   \* the output directory exists
    files,       \* names N such that <output_dir>/N.mp3 exists
    others,      \* entries of the output directory that are not mp3 files
    tags,        \* files -> <<title, artist>> written by eyed3 (<<>> = untagged)
    remote,      \* names pushed to the remote server
    \* ---- download_playlist locals
    videos,      \* list returned by get_playlist_info (sequence of ids)
    idx,         \* enumerate index i, 0-based as in the source
    pending,     \* os.listdir entries not yet visited by the re-sync loop
    plRet,       \* return value of download_playlist
    \* ---- download_audio locals (one call at a time)
    callId,      \* id of the video the url names
    suppress,    \* suppress_notification
    video_info,  \* outcome of get_video_info and the title of the document
    video_title,
    sanitized,   \* sanitized_title
    existed,     \* os.path.exists(output_path) at line 142
    extractRes,  \* outcome of the yt-dlp download subprocess
    reply,       \* reply of the completion service in process_metadata
    title,
    artist,
    tagRes,      \* outcome of update_mp3_metadata
    syncRes,     \* outcome of sync_to_navidrome
    daRet,       \* return value of download_audio
    stages,      \* external stages run by the current download_audio call
    \* ---- observation of the whole cli run
    dlCalls,     \* ids download_audio was called with, in call order
    dlRets,      \* what those calls returned, once the caller has the value
    slept,       \* seconds slept by the inter-item loop (lines 221-224)
    notifLog,    \* send_telegram_message calls, in order
    resyncs,     \* directory entry -> sync_to_navidrome calls of the re-sync pass
    \* ---- process_metadata called on its own
    pmTitle,
    pmKey,
    pmReply,
    pmOut,
    pmDone,
    \* ---- sanitize_filename called on its own
    sfIn,        \* the argument: [some |-> FALSE] is None
    sfOut,
    sfDone

vars == << pc, isPlaylist, delay, apiKey, token, dirExists, files, others, tags, remote,
           videos, idx, pending, plRet,
           callId, suppress, video_info, video_title, sanitized, existed,
           extractRes, reply, title, artist, tagRes, syncRes, daRet, stages,
           dlCalls, dlRets, slept, notifLog, resyncs,
           pmTitle, pmKey, pmReply, pmOut, pmDone, sfIn, sfOut, sfDone >>

envVars == << isPlaylist, delay, apiKey, token, others >>
plVars  == << videos, idx, pending, plRet >>
daVars  == << callId, suppress, video_info, video_title, sanitized, existed,
              extractRes, reply, title, artist, tagRes, syncRes, daRet, stages >>
pmVars  == << pmTitle, pmKey, pmReply, pmOut, pmDone >>
sfVars  == << sfIn, sfOut, sfDone >>

----------------------------------------------------------------------------
\* Bounds

MaxItems == 2      \* longest playlist returned by get_playlist_info
MaxDelay == 2      \* largest --delay
MaxLen   == 5      \* longest title handed to process_metadata on its own
MaxPre   == 1      \* most mp3 files already in the output directory at start
MaxSan   == 3      \* longest title handed to sanitize_filename on its own

----------------------------------------------------------------------------
\* Strings

Empty == << >>

UnknownArtist == << "Unknown Artist" >>

Delim == << " ", "-", " " >>

IsSpace(c) == c = " "

RECURSIVE LStrip(_)
LStrip(s) == IF s # Empty /\ IsSpace(Head(s)) THEN LStrip(Tail(s)) ELSE s

RECURSIVE RStrip(_)
RStrip(s) ==
    IF s # Empty /\ IsSpace(s[Len(s)]) THEN RStrip(SubSeq(s, 1, Len(s) - 1)) ELSE s

\* str.strip()
Strip(s) == RStrip(LStrip(s))

\* s[k .. k+2] = " - "
DelimAt(s, k) == k + 2 <= Len(s) /\ SubSeq(s, k, k + 2) = Delim

\* " - " in s
HasDelim(s) == \E k \in 1..Len(s) : DelimAt(s, k)

RECURSIVE FindFrom(_, _)
FindFrom(s, k) ==
    IF k + 2 > Len(s) THEN 0
    ELSE IF DelimAt(s, k) THEN k ELSE FindFrom(s, k + 1)

\* s.split(" - ", 1): the parts around the leftmost delimiter
SplitOnce(s) ==
    LET k == FindFrom(s, 1)
    IN  IF k = 0 THEN << s >>
        ELSE << SubSeq(s, 1, k - 1), SubSeq(s, k + 3, Len(s)) >>

IllegalChars == { "\\", "/", "*", "?", ":", "\"", "<", ">", "|" }

UnknownTitle == << "unknown_title" >>

\* only the first illegal character removed
RECURSIVE RemoveFirstIllegal(_)
RemoveFirstIllegal(s) ==
    IF s = Empty THEN Empty
    ELSE IF Head(s) \in IllegalChars THEN Tail(s)
         ELSE << Head(s) >> \o RemoveFirstIllegal(Tail(s))

RECURSIVE RemoveIllegal(_)
RemoveIllegal(s) ==
    IF s = Empty THEN Empty
    ELSE IF Head(s) \in IllegalChars THEN RemoveIllegal(Tail(s))
         ELSE << Head(s) >> \o RemoveIllegal(Tail(s))

sanitize_filename(filename) ==
    IF filename = Empty THEN UnknownTitle ELSE RemoveIllegal(filename)

----------------------------------------------------------------------------
\* process_metadata

\* the fallback swapped: (first segment, remainder)
HeuristicSwapped(file_name) ==
    IF HasDelim(file_name)
    THEN LET parts == SplitOnce(file_name)
         IN  IF Len(parts) = 2 THEN << Strip(parts[1]), Strip(parts[2]) >>
             ELSE << file_name, UnknownArtist >>
    ELSE << file_name, UnknownArtist >>

\* lines 253-257 and 305-309
Heuristic(file_name) ==
    IF HasDelim(file_name)
    THEN LET parts == SplitOnce(file_name)
         IN  IF Len(parts) = 2 THEN << Strip(parts[2]), Strip(parts[1]) >>
             ELSE << file_name, UnknownArtist >>
    ELSE << file_name, UnknownArtist >>

\* A reply of the completion service is open \o body \o close: an optional
\* opening fence, a body, an optional closing fence. body "raise" is a call
\* that raised instead of replying. The fences are the markers of a markdown
\* code block: three backquotes followed by json, and three backquotes.
FenceJson == "[fence]json"
Fence     == "[fence]"

NoReply == [open |-> "", body |-> "none", close |-> "", t |-> Empty, a |-> Empty]

Raised  == [open |-> "", body |-> "raise", close |-> "", t |-> Empty, a |-> Empty]

JsonTitles  == { Empty, << "T" >> }
JsonArtists == { Empty, << "R" >> }

Replies ==
    [open : {"", FenceJson}, body : {"obj"}, close : {"", Fence},
     t : JsonTitles, a : JsonArtists]
    \cup
    [open : {"", FenceJson}, body : {"nonobj", "garbage", "empty"},
     close : {"", Fence}, t : {Empty}, a : {Empty}]

Obj(o, t, a, c) == [open |-> o, body |-> "obj", close |-> c, t |-> t, a |-> a]

Other(o, b, c) == [open |-> o, body |-> b, close |-> c, t |-> Empty, a |-> Empty]

\* the replies the pipeline is driven with: an object, an object without a
\* title, a fenced object, a document that is not an object, text that is not
\* JSON, fenced text that is not JSON, and nothing
PipelineReplies ==
    { Obj("", << "T" >>, << "R" >>, ""),
      Obj("", Empty, << "R" >>, ""),
      Obj(FenceJson, << "T" >>, << "R" >>, Fence),
      Other("", "nonobj", ""),
      Other("", "garbage", ""),
      Other(FenceJson, "garbage", Fence),
      Other("", "empty", "") }

\* response_content is falsy
IsEmptyReply(r) == r.open = "" /\ r.body = "empty" /\ r.close = ""

\* json.loads succeeds
JsonLoads(r) == r.open = "" /\ r.close = "" /\ r.body \in {"obj", "nonobj"}

\* lines 283-288
Cleaned(r) ==
    [r EXCEPT !.open  = IF r.open = FenceJson THEN "" ELSE r.open,
              !.close = IF r.close = Fence THEN "" ELSE r.close]

\* metadata.get on the parsed document; a document that is not an object
\* raises AttributeError, which the outer handler turns into the fallback
FromDocument(r, file_name) ==
    IF r.body = "obj" THEN << r.t, r.a >> ELSE Heuristic(file_name)

\* an unparsable reply answered with the fallback instead of two empty strings
ParseReplyLenient(r, file_name) ==
    IF IsEmptyReply(r) THEN << file_name, UnknownArtist >>
    ELSE IF JsonLoads(r) THEN FromDocument(r, file_name)
    ELSE IF JsonLoads(Cleaned(r)) THEN FromDocument(Cleaned(r), file_name)
         ELSE Heuristic(file_name)

\* lines 274-300
ParseReply(r, file_name) ==
    IF IsEmptyReply(r) THEN << file_name, UnknownArtist >>
    ELSE IF JsonLoads(r) THEN FromDocument(r, file_name)
    ELSE IF JsonLoads(Cleaned(r)) THEN FromDocument(Cleaned(r), file_name)
         ELSE << Empty, Empty >>

process_metadata(file_name, key, r) ==
    IF ~key THEN Heuristic(file_name)
    ELSE IF r.body = "raise" THEN Heuristic(file_name)
         ELSE ParseReply(r, file_name)

----------------------------------------------------------------------------
\* The environment's answers

Ids == { "x", "y" }

\* titles yt-dlp reports; Empty is a document without a usable title
InfoTitles == { << "A", " ", "-", " ", "S", "?" >>, Empty }

\* line 127
FallbackTitle(id) == << "youtube_video_", id >>

Names ==
    { sanitize_filename(t) : t \in InfoTitles \ { Empty } }
    \cup { sanitize_filename(FallbackTitle(id)) : id \in Ids }

RECURSIVE SeqsUpTo(_, _)
SeqsUpTo(S, n) ==
    IF n = 0 THEN { << >> }
    ELSE LET shorter == SeqsUpTo(S, n - 1)
         IN  shorter \cup { Append(q, x) : q \in { r \in shorter : Len(r) = n - 1 }, x \in S }

\* the item lists of get_playlist_info, lines 98-108; the two ids are
\* interchangeable, so the first item is always "x"
Playlists == { q \in SeqsUpTo(Ids, MaxItems) : q = << >> \/ q[1] = "x" }

Delays == 0 .. MaxDelay

InfoOutcomes    == { "ok", "subproc", "json", "falsy", "launch" }
ExtractOutcomes == { "exit0", "exit0_nofile", "nonzero", "launch" }
TagOutcomes     == { "ok", "load_none", "exc" }
SyncOutcomes    == { "ok", "nonzero", "exc" }

NoInfo == [res |-> "none", title |-> Empty]

\* send_telegram_message, lines 27-55: what a call does, given the token
SendOutcomes(tok) == IF tok THEN { "sent", "error" } ELSE { "no_token" }

\* the POST made before the token is looked at
send_telegram_message_no_check(tok, post) ==
    [res |-> post, posts |-> 1, ret |-> (post = "sent"), raised |-> FALSE]

\* send_telegram_message, lines 27-55: the POSTs made, the value returned and
\* whether an exception leaves the function, for a POST that ends as post
\* ("sent": 2xx; "error": requests.post or raise_for_status raised)
send_telegram_message(tok, post) ==
    IF ~tok
    THEN [res |-> "no_token", posts |-> 0, ret |-> FALSE, raised |-> FALSE]
    ELSE [res |-> post, posts |-> 1, ret |-> (post = "sent"), raised |-> FALSE]

\* a call of send_telegram_message as the run records it
Notification(kind, tok, post) ==
    LET m == send_telegram_message(tok, post)
    IN  [kind |-> kind, res |-> m.res, posts |-> m.posts, ret |-> m.ret,
         raised |-> m.raised]

Untagged == << >>

\* a directory entry <base>.<ext>
Mp3Entry(n) == [base |-> n, ext |-> "mp3"]

\* what an earlier, interrupted download can have left next to the mp3 files
OtherEntries == { [base |-> << "A", " ", "-", " ", "S" >>, ext |-> "webm"] }

AllEntries == { Mp3Entry(n) : n \in Names } \cup OtherEntries

\* the entries of the output directory
DirEntries(fs, os) == { Mp3Entry(n) : n \in fs } \cup os

----------------------------------------------------------------------------
\* Exceptions: "SubprocessError" is subprocess.SubprocessError and its
\* subclasses (CalledProcessError), "Other" any other subclass of Exception
\* (FileNotFoundError and OSError of a launch or of the filesystem,
\* AttributeError, TypeError)

ExcKinds == { "SubprocessError", "Other" }

\* the handler of line 192 missing
DaCatchesSubprocessOnly(exc) == exc = "SubprocessError"

\* lines 189-194: the handlers of download_audio
DaCatches(exc) == exc \in { "SubprocessError", "Other" }

\* line 243: the handler of download_playlist
PlCatches(exc) == exc \in { "SubprocessError", "Other" }

\* where an exception raised in the body of download_playlist lands
PlRaised(exc) == IF PlCatches(exc) THEN "pl_except" ELSE "crashed"

\* where an exception raised in the body of download_audio lands: at ret, the
\* position after its own handler, or else in the caller (pl says the caller
\* is download_playlist; cli has no handler)
DaRaised(exc, ret, pl) ==
    IF DaCatches(exc) THEN ret
    ELSE IF pl THEN PlRaised(exc) ELSE "crashed"

\* what a failed download subprocess raises: CalledProcessError from
\* check=True, or the error of the launch
ExtractRaises(res) == IF res = "nonzero" THEN "SubprocessError" ELSE "Other"

----------------------------------------------------------------------------
\* Decisions of download_audio

\* a failed fetch taken for a document
InfoUsableAlways(info) == TRUE

\* line 120 negated: get_video_info handed back a usable document
InfoUsable(info) == info.res = "ok"

\* line 142 never true
PathExistsNever(name, fs) == FALSE

\* line 142: os.path.exists(output_path)
PathExists(name, fs) == name \in fs

\* the skip going on to the sync of the file found
AfterSkipSync(sup) == "da_sync"

\* lines 142-144: the skip returns at once, whoever the caller is
AfterSkip(sup) == "da_ret"

\* success made to depend on the mp3 being there
ExtractOkNeedsFile(res) == res = "exit0"

\* subprocess.run(check=True) returned and returncode == 0, lines 159-161
ExtractOk(res) == res \in { "exit0", "exit0_nofile" }

\* a failed download tried again
AfterExtractRetry(res, present) ==
    IF ExtractOk(res) THEN (IF present THEN "da_meta" ELSE "da_ret")
    ELSE "da_extract"

\* the enrichment run without looking for the mp3
AfterExtractNoCheck(res, present) ==
    IF ExtractOk(res) THEN "da_meta" ELSE "da_ret"

\* lines 161-169 and 181-194: after the download subprocess; present is
\* os.path.exists(final_mp3_path) at line 169
AfterExtract(res, present) ==
    IF ExtractOk(res) THEN (IF present THEN "da_meta" ELSE "da_ret")
    ELSE "da_ret"

\* line 172
WriteTags(t, a) == t # Empty /\ a # Empty

\* the completion message sent whatever the caller asked
NotifyAlways(sup) == TRUE

\* line 179
Notify(sup) == ~sup

\* lines 172-176
AfterInfer(t, a) == IF WriteTags(t, a) THEN "da_tag" ELSE "da_sync"

\* update_mp3_metadata, lines 311-336: the value returned and whether the
\* tag reached the file, for a load that gives None ("load_none", lines
\* 318-320), an exception in load, initTag or save ("exc", lines 334-336)
\* and a clean save ("ok")
update_mp3_metadata(res) == [ret |-> (res = "ok"), saved |-> (res = "ok")]

\* a failed tag write ends the call
AfterTagAbort(res) == IF res = "ok" THEN "da_sync" ELSE "da_ret"

\* the tag write followed by a second inference
AfterTagBack(res) == "da_meta"

\* line 173 to line 176: the outcome of the tag write is not looked at
AfterTag(res) == "da_sync"

\* lines 179-184
AfterSync(sup) == IF Notify(sup) THEN "da_notify" ELSE "da_ret"

----------------------------------------------------------------------------
\* Decisions of download_playlist

\* the delay taken after every item but the last
ShouldDelayAlways(i, n, ok) == i < n - 1

\* line 219
ShouldDelay(i, n, ok) == i < n - 1 /\ ok

\* lines 221-224: one second per element of range(delay, 0, -1)
DelaySeconds(d) == IF d > 0 THEN d ELSE 0

\* the loop left at the first failed item
LoopContinuesOnSuccess(i, n, ok) == i < n - 1 /\ ok

\* line 211: enumerate(videos) has a next element
LoopContinues(i, n, ok) == i < n - 1

\* line 234: filename.endswith('.mp3')
EndsWithMp3(e) == e.ext = "mp3"

\* the re-sync loop left at the first failed sync
ResyncRestUntilFailure(res, rest) == IF res = "ok" THEN rest ELSE {}

\* lines 233-236: the outcome of a sync is not looked at, the loop goes on
ResyncRest(res, rest) == rest

\* line 233: os.listdir(output_dir) raises when the directory is missing
ListDir(exists, fs) ==
    IF exists THEN [raised |-> FALSE, names |-> fs]
    ELSE [raised |-> TRUE, names |-> {}]

----------------------------------------------------------------------------
\* Initial state

FreshCall ==
    /\ callId = "none"
    /\ suppress = FALSE
    /\ video_info = NoInfo
    /\ video_title = Empty
    /\ sanitized = Empty
    /\ existed = FALSE
    /\ extractRes = "none"
    /\ reply = NoReply
    /\ title = Empty
    /\ artist = Empty
    /\ tagRes = "none"
    /\ syncRes = "none"
    /\ daRet = FALSE
    /\ stages = << >>

SfIdle ==
    /\ sfIn = [some |-> FALSE, s |-> Empty]
    /\ sfOut = Empty
    /\ sfDone = FALSE

PmIdle ==
    /\ pmTitle = Empty
    /\ pmKey = FALSE
    /\ pmReply = NoReply
    /\ pmOut = << Empty, Empty >>
    /\ pmDone = FALSE

Init ==
    /\ pc = "cli"
    /\ isPlaylist \in BOOLEAN
    /\ delay \in Delays
    /\ apiKey \in BOOLEAN
    /\ token \in BOOLEAN
    /\ dirExists \in BOOLEAN
    /\ files \in { fs \in SUBSET Names : Cardinality(fs) <= MaxPre /\ (fs # {} => dirExists) }
    /\ others \in { os \in SUBSET OtherEntries : os # {} => dirExists }
    /\ tags = [n \in Names |-> Untagged]
    /\ remote = {}
    /\ videos = << >>
    /\ idx = 0
    /\ pending = {}
    /\ plRet = FALSE
    /\ FreshCall
    /\ dlCalls = << >>
    /\ dlRets = << >>
    /\ slept = 0
    /\ notifLog = << >>
    /\ resyncs = [e \in AllEntries |-> 0]
    /\ PmIdle
    /\ SfIdle

----------------------------------------------------------------------------
\* download_audio, lines 115-194

\* the locals of download_audio before a call and after its caller has taken
\* the return value
NoCall ==
    /\ callId' = "none"
    /\ suppress' = FALSE
    /\ video_info' = NoInfo
    /\ video_title' = Empty
    /\ sanitized' = Empty
    /\ existed' = FALSE
    /\ extractRes' = "none"
    /\ reply' = NoReply
    /\ title' = Empty
    /\ artist' = Empty
    /\ tagRes' = "none"
    /\ syncRes' = "none"
    /\ daRet' = FALSE
    /\ stages' = << >>

\* the call download_audio(url, output_dir, suppress_notification)
StartCall(id, sup) ==
    /\ pc' = "da_info"
    /\ callId' = id
    /\ suppress' = sup
    /\ video_info' = NoInfo
    /\ video_title' = Empty
    /\ sanitized' = Empty
    /\ existed' = FALSE
    /\ extractRes' = "none"
    /\ reply' = NoReply
    /\ title' = Empty
    /\ artist' = Empty
    /\ tagRes' = "none"
    /\ syncRes' = "none"
    /\ daRet' = FALSE
    /\ stages' = << >>
    /\ dlCalls' = Append(dlCalls, id)

\* line 119 and get_video_info, lines 70-87; "launch" is an exception
\* get_video_info does not catch, handled at line 192
DA_GetInfo ==
    /\ pc = "da_info"
    /\ \E res \in InfoOutcomes, t \in InfoTitles :
         /\ (res # "ok" => t = Empty)
         /\ video_info' = [res |-> res, title |-> t]
    /\ stages' = Append(stages, "fetch")
    /\ daRet' = FALSE
    /\ pc' = IF video_info'.res = "launch" THEN DaRaised("Other", "da_ret", isPlaylist)
             ELSE IF InfoUsable(video_info') THEN "da_prepare"
             ELSE "da_ret"
    /\ UNCHANGED << envVars, plVars, pmVars, sfVars, dirExists, files, tags, remote,
                    callId, suppress, video_title, sanitized, existed, extractRes,
                    reply, title, artist, tagRes, syncRes,
                    dlCalls, dlRets, slept, notifLog, resyncs >>

\* lines 124-144: title, output path, os.makedirs, the already-exists skip
DA_Prepare ==
    /\ pc = "da_prepare"
    /\ video_title' = IF video_info.title # Empty THEN video_info.title
                      ELSE FallbackTitle(callId)
    /\ sanitized' = sanitize_filename(video_title')
    /\ \E mkdirOk \in BOOLEAN :
         /\ (dirExists => mkdirOk)
         /\ IF ~mkdirOk
            THEN \* os.makedirs raised: line 192
                 /\ dirExists' = dirExists
                 /\ existed' = FALSE
                 /\ pc' = DaRaised("Other", "da_ret", isPlaylist) /\ daRet' = FALSE
            ELSE /\ dirExists' = TRUE
                 /\ existed' = (sanitized' \in files)
                 /\ IF PathExists(sanitized', files)
                    THEN pc' = AfterSkip(suppress) /\ daRet' = TRUE
                    ELSE pc' = "da_extract" /\ daRet' = FALSE
    /\ UNCHANGED << envVars, plVars, pmVars, sfVars, files, tags, remote,
                    callId, suppress, video_info, extractRes,
                    reply, title, artist, tagRes, syncRes, stages,
                    dlCalls, dlRets, slept, notifLog, resyncs >>

\* lines 147-169 and 181-194: the download subprocess, the one-second wait
\* and the check that the mp3 is there
DA_Extract ==
    /\ pc = "da_extract"
    /\ \E res \in ExtractOutcomes :
         /\ extractRes' = res
         /\ files' = IF res = "exit0" THEN files \cup { sanitized } ELSE files
         /\ daRet' = ExtractOk(res)
         /\ pc' = IF ExtractOk(res)
                  THEN AfterExtract(res, PathExists(sanitized, files'))
                  ELSE DaRaised(ExtractRaises(res),
                                AfterExtract(res, PathExists(sanitized, files')),
                                isPlaylist)
    /\ stages' = Append(stages, "extract")
    /\ UNCHANGED << envVars, plVars, pmVars, sfVars, dirExists, tags, remote,
                    callId, suppress, video_info, video_title, sanitized, existed,
                    reply, title, artist, tagRes, syncRes,
                    dlCalls, dlRets, slept, notifLog, resyncs >>

\* lines 171-172
DA_Metadata ==
    /\ pc = "da_meta"
    /\ \E r \in PipelineReplies \cup { Raised } :
         /\ (~apiKey => r = Raised)
         /\ reply' = IF apiKey THEN r ELSE NoReply
         /\ LET res == process_metadata(video_title, apiKey, r)
            IN  /\ title' = res[1]
                /\ artist' = res[2]
    /\ stages' = Append(stages, "infer")
    /\ pc' = AfterInfer(title', artist')
    /\ UNCHANGED << envVars, plVars, pmVars, sfVars, dirExists, files, tags, remote,
                    callId, suppress, video_info, video_title, sanitized, existed,
                    extractRes, tagRes, syncRes, daRet,
                    dlCalls, dlRets, slept, notifLog, resyncs >>

\* line 173 and update_mp3_metadata, lines 311-336
DA_Tag ==
    /\ pc = "da_tag"
    /\ \E res \in TagOutcomes :
         /\ tagRes' = res
         /\ tags' = IF update_mp3_metadata(res).saved
                    THEN [tags EXCEPT ![sanitized] = << title, artist >>]
                    ELSE tags
         /\ pc' = AfterTag(res)
    /\ stages' = Append(stages, "tag")
    /\ UNCHANGED << envVars, plVars, pmVars, sfVars, dirExists, files, remote,
                    callId, suppress, video_info, video_title, sanitized, existed,
                    extractRes, reply, title, artist, syncRes, daRet,
                    dlCalls, dlRets, slept, notifLog, resyncs >>

\* line 176 and sync_to_navidrome, lines 338-367
DA_Sync ==
    /\ pc = "da_sync"
    /\ \E res \in SyncOutcomes :
         /\ syncRes' = res
         /\ remote' = IF res = "ok" THEN remote \cup { sanitized } ELSE remote
    /\ stages' = Append(stages, "sync")
    /\ pc' = AfterSync(suppress)
    /\ UNCHANGED << envVars, plVars, pmVars, sfVars, dirExists, files, tags,
                    callId, suppress, video_info, video_title, sanitized, existed,
                    extractRes, reply, title, artist, tagRes, daRet,
                    dlCalls, dlRets, slept, notifLog, resyncs >>

\* line 180
DA_Notify ==
    /\ pc = "da_notify"
    /\ \E res \in SendOutcomes(token) :
         notifLog' = Append(notifLog, Notification("item", token, res))
    /\ stages' = Append(stages, "notify")
    /\ pc' = "da_ret"
    /\ UNCHANGED << envVars, plVars, pmVars, sfVars, dirExists, files, tags, remote,
                    callId, suppress, video_info, video_title, sanitized, existed,
                    extractRes, reply, title, artist, tagRes, syncRes, daRet,
                    dlCalls, dlRets, slept, resyncs >>

----------------------------------------------------------------------------
\* download_playlist, lines 196-245

\* line 200 and get_playlist_info, lines 89-113, then lines 202-204;
\* "launch" is an exception get_playlist_info does not catch, handled at 243
PL_GetInfo ==
    /\ pc = "pl_fetch"
    /\ \E res \in { "ok", "subproc", "launch" }, vs \in Playlists :
         /\ (res # "ok" => vs = << >>)
         /\ videos' = vs
         /\ pc' = IF res = "launch" THEN PlRaised("Other")
                  ELSE IF vs = << >> THEN "cli_after"
                  ELSE "pl_loop"
    /\ idx' = 0
    /\ plRet' = FALSE
    /\ UNCHANGED << envVars, pmVars, sfVars, daVars, dirExists, files, tags, remote, pending,
                    dlCalls, dlRets, slept, notifLog, resyncs >>

\* lines 211-215: the body of the loop calls download_audio for item idx
PL_Call ==
    /\ pc = "pl_loop"
    /\ StartCall(videos[idx + 1], TRUE)
    /\ UNCHANGED << envVars, pmVars, sfVars, plVars, dirExists, files, tags, remote,
                    dlRets, slept, notifLog, resyncs >>

\* lines 215-224: download_audio returned; the delay; the next item
PL_AfterItem ==
    /\ pc = "da_ret"
    /\ isPlaylist
    /\ LET n  == Len(videos)
           ok == daRet
       IN  /\ slept' = IF ShouldDelay(idx, n, ok) THEN slept + DelaySeconds(delay)
                       ELSE slept
           /\ IF LoopContinues(idx, n, ok)
              THEN idx' = idx + 1 /\ pc' = "pl_loop"
              ELSE idx' = idx /\ pc' = "pl_scan"
    /\ dlRets' = Append(dlRets, daRet)
    /\ NoCall
    /\ UNCHANGED << envVars, pmVars, sfVars, dirExists, files, tags, remote,
                    videos, pending, plRet, dlCalls, notifLog, resyncs >>

\* lines 226-234: the directory listing that feeds the re-sync pass
PL_ListDir ==
    /\ pc = "pl_scan"
    /\ LET ls == ListDir(dirExists, DirEntries(files, others))
       IN  IF ls.raised
           THEN pending' = {} /\ plRet' = FALSE /\ pc' = PlRaised("Other")
           ELSE /\ pending' = { e \in ls.names : EndsWithMp3(e) }
                /\ plRet' = FALSE
                /\ pc' = "pl_resync"
    /\ UNCHANGED << envVars, pmVars, sfVars, daVars, dirExists, files, tags, remote,
                    videos, idx, dlCalls, dlRets, slept, notifLog, resyncs >>

\* lines 243-245: the handler of download_playlist
PL_Except ==
    /\ pc = "pl_except"
    /\ plRet' = FALSE
    /\ pc' = "cli_after"
    /\ UNCHANGED << envVars, pmVars, sfVars, daVars, dirExists, files, tags, remote,
                    videos, idx, pending, dlCalls, dlRets, slept, notifLog, resyncs >>

\* lines 233-236: one file of the listing synced
PL_Resync ==
    /\ pc = "pl_resync"
    /\ pending # {}
    /\ \E f \in pending, res \in SyncOutcomes :
         /\ pending' = ResyncRest(res, pending \ { f })
         /\ remote' = IF res = "ok" THEN remote \cup { f.base } ELSE remote
         /\ resyncs' = [resyncs EXCEPT ![f] = @ + 1]
    /\ pc' = "pl_resync"
    /\ UNCHANGED << envVars, pmVars, sfVars, daVars, dirExists, files, tags,
                    videos, idx, plRet, dlCalls, dlRets, slept, notifLog >>

\* lines 238-241: the aggregate notification and the return
PL_Notify ==
    /\ pc = "pl_resync"
    /\ pending = {}
    /\ \E res \in SendOutcomes(token) :
         notifLog' = Append(notifLog, Notification("playlist", token, res))
    /\ plRet' = TRUE
    /\ pc' = "cli_after"
    /\ UNCHANGED << envVars, pmVars, sfVars, daVars, dirExists, files, tags, remote,
                    videos, idx, pending, dlCalls, dlRets, slept, resyncs >>

----------------------------------------------------------------------------
\* cli, lines 369-384

\* lines 375-377 and 380-382
Cli_Start ==
    /\ pc = "cli"
    /\ IF isPlaylist
       THEN /\ pc' = "pl_fetch"
            /\ UNCHANGED << daVars, dlCalls >>
       ELSE \E id \in Ids : StartCall(id, FALSE)
    /\ UNCHANGED << envVars, pmVars, sfVars, plVars, dirExists, files, tags, remote,
                    dlRets, slept, notifLog, resyncs >>

\* lines 378-379 and 383-384
Cli_Finish ==
    /\ \/ pc = "cli_after" /\ isPlaylist
       \/ pc = "da_ret" /\ ~isPlaylist
    /\ LET ok == IF isPlaylist THEN plRet ELSE daRet
       IN  IF ~ok
           THEN \E res \in SendOutcomes(token) :
                  notifLog' = Append(notifLog, Notification("failed", token, res))
           ELSE notifLog' = notifLog
    /\ dlRets' = IF isPlaylist THEN dlRets ELSE Append(dlRets, daRet)
    /\ pc' = "done"
    /\ UNCHANGED << envVars, pmVars, sfVars, plVars, daVars, dirExists, files, tags, remote,
                    dlCalls, slept, resyncs >>

Next ==
    \/ Cli_Start
    \/ DA_GetInfo
    \/ DA_Prepare
    \/ DA_Extract
    \/ DA_Metadata
    \/ DA_Tag
    \/ DA_Sync
    \/ DA_Notify
    \/ PL_GetInfo
    \/ PL_Call
    \/ PL_AfterItem
    \/ PL_ListDir
    \/ PL_Except
    \/ PL_Resync
    \/ PL_Notify
    \/ Cli_Finish

Spec == Init /\ [][Next]_vars

----------------------------------------------------------------------------
\* process_metadata on its own, over every short title

Chars == { "a", " ", "-" }

ArtistSong == << "A", "r", "t", "i", "s", "t", " ", "-", " ", "S", "o", "n", "g" >>

JustATitle == << "J", "u", "s", "t", " ", "A", " ", "T", "i", "t", "l", "e" >>

PmTitles == SeqsUpTo(Chars, MaxLen) \cup { ArtistSong, JustATitle }

mainVars == << pc, envVars, plVars, daVars, dirExists, files, tags, remote,
               dlCalls, dlRets, slept, notifLog, resyncs >>

InitPM ==
    /\ pc = "pm"
    /\ isPlaylist = FALSE
    /\ delay = 0
    /\ apiKey = FALSE
    /\ token = FALSE
    /\ dirExists = FALSE
    /\ files = {}
    /\ others = {}
    /\ tags = [n \in Names |-> Untagged]
    /\ remote = {}
    /\ videos = << >>
    /\ idx = 0
    /\ pending = {}
    /\ plRet = FALSE
    /\ FreshCall
    /\ dlCalls = << >>
    /\ dlRets = << >>
    /\ slept = 0
    /\ notifLog = << >>
    /\ resyncs = [e \in AllEntries |-> 0]
    /\ pmTitle \in PmTitles
    /\ pmKey \in BOOLEAN
    /\ pmReply = NoReply
    /\ pmOut = << Empty, Empty >>
    /\ pmDone = FALSE
    /\ SfIdle

\* process_metadata(file_name), lines 247-309
PM_Call ==
    /\ pc = "pm"
    /\ ~pmDone
    /\ \E r \in Replies \cup { Raised } :
         /\ (~pmKey => r = Raised)
         /\ pmReply' = IF pmKey THEN r ELSE NoReply
         /\ pmOut' = process_metadata(pmTitle, pmKey, r)
    /\ pmDone' = TRUE
    /\ UNCHANGED << mainVars, sfVars, pmTitle, pmKey >>

NextPM == PM_Call

SpecPM == InitPM /\ [][NextPM]_vars

----------------------------------------------------------------------------
\* sanitize_filename on its own, over every short title and None

SfChars == { "a", "b", "\\", "/", "*", "?", ":", "\"", "<", ">", "|" }

SfTitles == [some : { TRUE }, s : SeqsUpTo(SfChars, MaxSan)]
            \cup { [some |-> FALSE, s |-> Empty] }

\* the pipeline at rest
MainIdle ==
    /\ isPlaylist = FALSE
    /\ delay = 0
    /\ apiKey = FALSE
    /\ token = FALSE
    /\ dirExists = FALSE
    /\ files = {}
    /\ others = {}
    /\ tags = [n \in Names |-> Untagged]
    /\ remote = {}
    /\ videos = << >>
    /\ idx = 0
    /\ pending = {}
    /\ plRet = FALSE
    /\ FreshCall
    /\ dlCalls = << >>
    /\ dlRets = << >>
    /\ slept = 0
    /\ notifLog = << >>
    /\ resyncs = [e \in AllEntries |-> 0]

InitSF ==
    /\ pc = "sf"
    /\ MainIdle
    /\ PmIdle
    /\ sfIn \in SfTitles
    /\ sfOut = Empty
    /\ sfDone = FALSE

\* line 66: `not filename` holds for None as it does for ''
TextOf(f) == IF f.some THEN f.s ELSE Empty

\* sanitize_filename(filename), lines 64-68
Sanitize_Call ==
    /\ pc = "sf"
    /\ ~sfDone
    /\ sfOut' = sanitize_filename(TextOf(sfIn))
    /\ sfDone' = TRUE
    /\ UNCHANGED << mainVars, pmVars, sfIn >>

NextSF == Sanitize_Call

SpecSF == InitSF /\ [][NextSF]_vars

----------------------------------------------------------------------------
\* Properties

Ran(stage) == \E k \in DOMAIN stages : stages[k] = stage

Sent(kind) == { k \in DOMAIN notifLog : notifLog[k].kind = kind }

\* C1: a download_audio call that found <output_dir>/<sanitized title>.mp3
\* present never runs the download subprocess and returns True.
C1_SkipExisting ==
    existed => /\ ~Ran("extract")
               /\ pc = "da_ret" => daRet

C1_Witness == pc = "da_ret" /\ existed /\ daRet /\ stages = << "fetch" >>

SucceededBeforeLast == { k \in DOMAIN dlRets : k < Len(videos) /\ dlRets[k] }

LoopOver ==
    /\ isPlaylist
    /\ videos # << >>
    /\ pc \in { "pl_scan", "pl_resync", "pl_except", "cli_after", "done" }

\* C3: download_playlist calls download_audio once per item, in list order,
\* whatever the calls return: the calls made so far are a prefix of the list
\* and, once the loop is over, the whole list.
C3_OneCallPerItem ==
    isPlaylist =>
        /\ Len(dlCalls) <= Len(videos)
        /\ dlCalls = SubSeq(videos, 1, Len(dlCalls))
        /\ LoopOver => dlCalls = videos /\ Len(dlRets) = Len(videos)

C3_Witness ==
    /\ pc = "pl_scan"
    /\ Len(videos) = 2
    /\ videos[1] # videos[2]
    /\ dlCalls = videos
    /\ dlRets = << FALSE, FALSE >>

\* C4: download_playlist returns True exactly when the item list is not empty
\* and the loop has completed, also when every item failed.
C4_ReturnIgnoresItems ==
    (isPlaylist /\ pc = "cli_after") =>
        (plRet <=> (videos # << >> /\ Len(dlRets) = Len(videos)))

Rank(stage) ==
    CASE stage = "fetch"   -> 1
      [] stage = "extract" -> 2
      [] stage = "infer"   -> 3
      [] stage = "tag"     -> 4
      [] stage = "sync"    -> 5
      [] stage = "notify"  -> 6

\* C5: within one download_audio call the stages run in the order metadata
\* fetch, audio extraction, tag inference, tag write, remote sync,
\* notification: no stage runs after a later one or twice.
C5_StageOrder ==
    \A j, k \in DOMAIN stages : j < k => Rank(stages[j]) < Rank(stages[k])

C5_Witness ==
    pc = "da_ret" /\ stages = << "fetch", "extract", "infer", "tag", "sync", "notify" >>

\* C6: a download_audio call that got its metadata and did not take the
\* already-exists skip returns True exactly when the download subprocess
\* exited with code 0, whatever inference, tag write, sync and notification did.
C6_ExitCodeDecides ==
    (pc = "da_ret" /\ video_info.res = "ok" /\ ~existed)
        => (daRet <=> extractRes \in { "exit0", "exit0_nofile" })

C6_Witness ==
    /\ pc = "da_ret"
    /\ daRet
    /\ extractRes = "exit0"
    /\ reply.body = "raise"
    /\ tagRes = "exc"
    /\ syncRes = "exc"
    /\ Ran("notify")
    /\ notifLog[Len(notifLog)].res = "error"

\* C7: when the metadata fetch fails in the subprocess or in the JSON parse,
\* get_video_info hands back nothing and download_audio returns False having
\* run no other stage.
C7_FetchFailureFatal ==
    video_info.res \in { "subproc", "json" }
        => /\ ~InfoUsable(video_info)
           /\ stages = << "fetch" >>
           /\ pc \in { "da_ret", "done" }
           /\ ~daRet
           /\ title = Empty /\ artist = Empty

C7_Witness == pc = "da_ret" /\ video_info.res = "json" /\ ~daRet

\* the reply is not JSON, before and after the cleanup pass
NotJson(r) ==
    /\ r.body \in { "obj", "nonobj", "garbage", "empty" }
    /\ ~JsonLoads(r)
    /\ ~JsonLoads(Cleaned(r))

AfterInference == pc \in { "da_tag", "da_sync", "da_notify", "da_ret" } /\ Ran("infer")

\* what C8 says of a call whose reply r was not usable
SkipsTagWrite ==
    /\ title = Empty /\ artist = Empty
    /\ ~Ran("tag")
    /\ pc \in { "da_notify", "da_ret" } => Ran("sync")
    /\ pc = "da_ret" => daRet

\* C8 as stated: with a credential, any reply that is not JSON even after the
\* cleanup pass gives two empty strings; the tag write is skipped, the sync
\* runs and the item reports success.
C8_NotJsonSkipsTags ==
    (AfterInference /\ apiKey /\ NotJson(reply)) => SkipsTagWrite

\* C8 amended: with a credential, a non-empty reply that is not JSON even
\* after the cleanup pass gives two empty strings; the tag write is skipped,
\* the sync runs and the item reports success. (An empty reply gives the raw
\* title with "Unknown Artist" and the tag write runs.)
C8_NonEmptyNotJsonSkipsTags ==
    (AfterInference /\ apiKey /\ NotJson(reply) /\ ~IsEmptyReply(reply)) => SkipsTagWrite

C8_Witness ==
    /\ pc = "da_ret"
    /\ apiKey
    /\ reply = Other(FenceJson, "garbage", Fence)
    /\ stages = << "fetch", "extract", "infer", "sync" >>
    /\ daRet

\* C9: a playlist run over a non-empty list sends no per-item notification
\* and, by the time it is over, exactly one aggregate notification, sent after
\* the last item and the re-sync pass.
C9_OneAggregateNotification ==
    isPlaylist =>
        /\ Sent("item") = {}
        /\ Sent("playlist") # {} => LoopOver /\ pending = {} /\ pc \in { "cli_after", "done" }
        /\ (pc = "done" /\ videos # << >>) => Cardinality(Sent("playlist")) = 1

----------------------------------------------------------------------------
\* Properties of process_metadata

\* the place of the leftmost " - " of s, for an s that has one
FirstDelim(s) ==
    CHOOSE k \in 1 .. Len(s) : DelimAt(s, k) /\ \A j \in 1 .. k - 1 : ~DelimAt(s, j)

FirstSegment(s) == SubSeq(s, 1, FirstDelim(s) - 1)

Remainder(s) == SubSeq(s, FirstDelim(s) + 3, Len(s))

Spaces(n) == [k \in 1 .. n |-> " "]

\* t is s without the spaces at its two ends
StrippedOf(t, s) ==
    /\ t = Empty \/ (t[1] # " " /\ t[Len(t)] # " ")
    /\ \E m, n \in 0 .. Len(s) : s = Spaces(m) \o t \o Spaces(n)

\* process_metadata answered without a credential, or its call raised
FellBack == pmDone /\ (~pmKey \/ pmReply = Raised)

\* C10 as stated: without a credential, or when the call raises, a title with
\* " - " gives (remainder, first segment) of the split at the first " - ",
\* and any other title gives (title, "Unknown Artist").
C10_FallbackSplit ==
    FellBack =>
        IF HasDelim(pmTitle)
        THEN pmOut = << Remainder(pmTitle), FirstSegment(pmTitle) >>
        ELSE pmOut = << pmTitle, UnknownArtist >>

\* C10 amended: without a credential, or when the call raises, a title with
\* " - " gives (remainder, first segment) of the split at the first " - ",
\* each with the whitespace at its ends stripped, and any other title gives
\* (title, "Unknown Artist"); "Artist - Song" gives ("Song", "Artist"); both
\* triggers give the same pair for the same title.
C10_FallbackSplitStripped ==
    FellBack =>
        /\ IF HasDelim(pmTitle)
           THEN /\ StrippedOf(pmOut[1], Remainder(pmTitle))
                /\ StrippedOf(pmOut[2], FirstSegment(pmTitle))
           ELSE pmOut = << pmTitle, UnknownArtist >>
        /\ pmTitle = ArtistSong
             => pmOut = << << "S", "o", "n", "g" >>, << "A", "r", "t", "i", "s", "t" >> >>
        /\ pmTitle = JustATitle => pmOut = << JustATitle, UnknownArtist >>

C10_Witness ==
    /\ pmDone
    /\ pmKey
    /\ pmReply = Raised
    /\ pmTitle = << "a", " ", " ", "-", " " >>
    /\ pmOut = << Empty, << "a" >> >>

----------------------------------------------------------------------------
\* Properties of the notifier

----------------------------------------------------------------------------
\* Properties of sanitize_filename

Legal(c) == c \notin { "\\", "/", "*", "?", ":", "\"", "<", ">", "|" }

\* C12: sanitize_filename returns the title without its backslash, slash,
\* *, ?, :, double quote, <, > and | characters, the other characters kept in
\* their order; for an empty or absent title it returns "unknown_title".
C12_SanitizeRemovesIllegal ==
    sfDone =>
        IF ~sfIn.some \/ sfIn.s = Empty
        THEN sfOut = << "unknown_title" >>
        ELSE sfOut = SelectSeq(sfIn.s, Legal)

C12_Witness ==
    /\ sfDone
    /\ sfIn = [some |-> TRUE, s |-> << "?", "a", "|" >>]
    /\ sfOut = << "a" >>

----------------------------------------------------------------------------
\* Properties of the re-sync pass

\* C13: once the playlist loop is over, download_playlist attempts one sync
\* for every mp3 file of the output directory, files of earlier runs
\* included, and for nothing else; no file is synced twice in the pass, all
\* of them are done before the aggregate notification, and a failed sync
\* does not stop the pass.
C13_ResyncEveryMp3 ==
    /\ \A e \in AllEntries :
         /\ resyncs[e] <= 1
         /\ resyncs[e] = 1 => (e.ext = "mp3" /\ e.base \in files /\ LoopOver)
    /\ (LoopOver /\ pc \in { "cli_after", "done" })
         => \A n \in files : resyncs[Mp3Entry(n)] = 1
    /\ Sent("playlist") # {} => \A n \in files : resyncs[Mp3Entry(n)] = 1

C13_Witness ==
    /\ pc = "cli_after"
    /\ plRet
    /\ Len(videos) = 1
    /\ Cardinality(files) = 2
    /\ others # {}
    /\ \A n \in files : resyncs[Mp3Entry(n)] = 1
    /\ remote = {}

----------------------------------------------------------------------------
\* Properties of the tag write

\* C14: when update_mp3_metadata fails (the file does not load, or an
\* exception in the tag mutation or the save) it returns False, the file keeps
\* the tag it had, and download_audio goes on: it syncs, notifies unless
\* suppressed, and returns True.
C14_TagFailureNotFatal ==
    tagRes \in { "load_none", "exc" }
        => /\ ~update_mp3_metadata(tagRes).ret
           /\ tags[sanitized] = Untagged
           /\ pc \in { "da_sync", "da_notify", "da_ret", "done" }
           /\ pc \in { "da_notify", "da_ret", "done" } => Ran("sync")
           /\ pc \in { "da_ret", "done" } => (daRet /\ (~suppress => Ran("notify")))

C14_Witness ==
    /\ pc = "done"
    /\ tagRes = "load_none"
    /\ syncRes = "ok"
    /\ sanitized \in remote
    /\ tags[sanitized] = Untagged
    /\ stages = << "fetch", "extract", "infer", "tag", "sync", "notify" >>
    /\ daRet

----------------------------------------------------------------------------
\* Properties of the stages of one call

Times(stage) == Cardinality({ k \in DOMAIN stages : stages[k] = stage })

StageNames == { "fetch", "extract", "infer", "tag", "sync", "notify" }

\* C15: nothing is retried: within one download_audio call every stage is
\* invoked at most once, and a failed download (non-zero exit or launch
\* error) makes the call return False with the extractor invoked that once.
C15_NoRetries ==
    /\ \A st \in StageNames : Times(st) <= 1
    /\ extractRes \in { "nonzero", "launch" }
         => /\ pc \in { "da_ret", "done" }
            /\ ~daRet
            /\ stages = << "fetch", "extract" >>

C15_Witness ==
    /\ pc = "da_ret"
    /\ extractRes = "nonzero"
    /\ ~daRet
    /\ Times("extract") = 1

----------------------------------------------------------------------------
\* Properties of the error handling

\* C16: no exception leaves download_audio or download_playlist: the run
\* never ends in an uncaught exception, it can always take its next step
\* until cli is over, every call hands back a boolean, and in a playlist a
\* failed item is followed by the call for the next one.
C16_NoEscapingException ==
    /\ pc # "crashed"
    /\ pc # "done" => ENABLED Next
    /\ daRet \in BOOLEAN /\ plRet \in BOOLEAN
    /\ \A k \in DOMAIN dlRets : dlRets[k] \in BOOLEAN
    /\ isPlaylist =>
         \A k \in DOMAIN dlRets :
             (k < Len(videos) /\ ~dlRets[k]) => (Len(dlCalls) > k \/ pc = "pl_loop")

C16_Witness ==
    /\ isPlaylist
    /\ pc = "da_ret"
    /\ dlRets = << FALSE >>
    /\ Len(dlCalls) = 2
    /\ extractRes = "launch"
    /\ ~daRet

----------------------------------------------------------------------------
\* Properties of the skip

\* C17: once a call of download_audio has found its output file on disk, it
\* runs no stage after the fetch (no inference, tag write, sync or
\* notification), it returns True, and no step taken while it is the current
\* call changes the files, their tags, the remote side or the messages sent.
C17_SkipLeavesAllUntouched ==
    [][existed' => /\ stages' = << "fetch" >>
                   /\ daRet'
                   /\ pc' \in { "da_ret", "done" }
                   /\ UNCHANGED << files, tags, remote, notifLog, resyncs >>]_vars

C17_Witness ==
    /\ ~isPlaylist
    /\ pc = "done"
    /\ existed
    /\ sanitized \in files
    /\ tags[sanitized] = Untagged
    /\ remote = {}
    /\ notifLog = << >>

----------------------------------------------------------------------------
\* Properties of the check made after extraction

\* C18: when the extractor exits with 0 and leaves no file at the output path,
\* the call returns True having run only the fetch and the extraction; and a
\* call that ran the inference, the tag write, the sync or the notification
\* had exit code 0 and its output file on disk.
C18_NoFileNoLateStages ==
    /\ extractRes = "exit0_nofile"
         => /\ stages = << "fetch", "extract" >>
            /\ pc \in { "da_ret", "done" }
            /\ daRet
            /\ sanitized \notin files
    /\ (Ran("infer") \/ Ran("tag") \/ Ran("sync") \/ Ran("notify"))
         => /\ extractRes = "exit0"
            /\ sanitized \in files

C18_Witness ==
    /\ pc = "da_ret"
    /\ extractRes = "exit0_nofile"
    /\ sanitized \notin files
    /\ daRet
    /\ stages = << "fetch", "extract" >>

----------------------------------------------------------------------------
\* Properties of the notifications of one run

\* C19: one run of cli calls send_telegram_message at most once; the failure
\* message is sent only after download_audio or download_playlist returned
\* False, a completion message only by a call that returns True; so no run
\* sends both.
C19_AtMostOneNotification ==
    /\ Len(notifLog) <= 1
    /\ Sent("failed") # {}
         => /\ pc = "done"
            /\ ~(IF isPlaylist THEN plRet ELSE daRet)
    /\ Sent("item") # {}
         => /\ ~isPlaylist
            /\ pc \in { "da_ret", "done" }
            /\ daRet
    /\ Sent("playlist") # {}
         => /\ isPlaylist
            /\ pc \in { "cli_after", "done" }
            /\ plRet
    /\ ~(Sent("failed") # {} /\ (Sent("item") # {} \/ Sent("playlist") # {}))

C19_Witness ==
    /\ isPlaylist
    /\ pc = "done"
    /\ Len(videos) = 2
    /\ Len(dlRets) = 2
    /\ plRet
    /\ Len(notifLog) = 1
    /\ Sent("playlist") = { 1 }

====
